---- MODULE Spec2Model ----
(***************************************************************************)
(* The c-ares backed DNS resolver of source/common/network/dns_impl.cc:    *)
(* DnsResolverImpl, its PendingResolution (address queries) and            *)
(* PendingSrvResolution (SRV queries), as a state machine.                 *)
(*                                                                         *)
(* The c-ares channel is modelled at its interface: a request issued with  *)
(* ares_getaddrinfo / ares_query is outstanding until the channel invokes  *)
(* its callback (synchronously inside the issuing call, later from         *)
(* ares_process_fd, or with ARES_EDESTRUCTION from ares_destroy); a        *)
(* request is no longer outstanding while its own callback runs.           *)
(***************************************************************************)
EXTENDS Integers, Sequences, FiniteSets, TLC

VARIABLES queries, dirty_channel_, destroyed, step, validation,
          events_, reported, timer_

vars == <<queries, dirty_channel_, destroyed, step, validation,
          events_, reported, timer_>>

(* Bounds of the model. *)
MaxQueries == 2
MaxAddrs == 2
MaxTargets == 1
MaxValidationCalls == 2
MaxFds == 3
MaxReadinessObjects == 1

(* c-ares status codes and address families used by the resolver. *)
ARES_SUCCESS == "ARES_SUCCESS"
ARES_ENOTFOUND == "ARES_ENOTFOUND"
ARES_ECONNREFUSED == "ARES_ECONNREFUSED"
ARES_EDESTRUCTION == "ARES_EDESTRUCTION"
ARES_EBADRESP == "ARES_EBADRESP"
ARES_ENODATA == "ARES_ENODATA"
ARES_ETIMEOUT == "ARES_ETIMEOUT"
ARES_SOCKET_BAD == "ARES_SOCKET_BAD"
AF_INET == "AF_INET"
AF_INET6 == "AF_INET6"

DnsLookupFamily == {"V4Only", "V6Only", "Auto"}
ResolutionStatus == {"Success", "Failure"}

(* What a caller's callback does when it is invoked: nothing, start a new  *)
(* resolution from inside the callback, throw, or destroy the resolver.    *)
CallbackActs == {"none", "resolve", "throw", "destroy"}

(* ---------------------------------------------------------------------- *)
(* Data                                                                    *)
(* ---------------------------------------------------------------------- *)

(* The ares_addrinfo node list of a successful answer with n records for   *)
(* the hinted family: record i has its own address and its own TTL.        *)
AddrInfoNodes(family, n) ==
  [i \in 1..n |-> [ai_family |-> family, ai_addr |-> i, ai_ttl |-> 10 * i]]

(* struct DnsResponse: address_ (port 0) and ttl_. *)
DnsResponse(address, ttl) == [address_ |-> address, ttl_ |-> ttl]

(* Every entry given the TTL of the first node. *)
AddressListFirstTtl(nodes) ==
  IF nodes # <<>> /\ nodes[1].ai_family \in {AF_INET, AF_INET6}
  THEN [i \in 1..Len(nodes) |->
          DnsResponse([family |-> nodes[1].ai_family, ip |-> nodes[i].ai_addr,
                       port |-> 0],
                      nodes[1].ai_ttl)]
  ELSE <<>>

(* Lines 133-158: one DnsResponse per node, in list order, if the first    *)
(* node's family is AF_INET or AF_INET6.                                   *)
AddressList(nodes) ==
  IF nodes # <<>> /\ nodes[1].ai_family \in {AF_INET, AF_INET6}
  THEN [i \in 1..Len(nodes) |->
          DnsResponse([family |-> nodes[1].ai_family, ip |-> nodes[i].ai_addr,
                       port |-> 0],
                      nodes[i].ai_ttl)]
  ELSE <<>>

(* The ares_srv_reply list parsed from an SRV answer with n records. *)
SrvReply(n) ==
  [i \in 1..n |-> [host |-> i, port |-> 80 + i, priority |-> i, weight |-> 2 * i,
                   ttl |-> 100 * i]]

(* Entries of the srv_records list: SrvDnsResponse built from a reply, and *)
(* SrvInstanceImpl built from a resolved address.                          *)
SrvDnsResponse(target, port, ttl, weight) ==
  [type |-> "SrvDnsResponse", address |-> target, port |-> port,
   priority |-> 0, weight |-> weight, ttl |-> ttl]

SrvInstanceImpl(address, priority, weight) ==
  [type |-> "SrvInstanceImpl", address |-> address, port |-> address.port,
   priority |-> priority, weight |-> weight, ttl |-> 0]

(* Utility::getAddressWithPort: the same address with the given port. *)
getAddressWithPort(address, port) == [address EXCEPT !.port = port]

(* A PendingResolutionBase object together with the request it has on the *)
(* channel (pending) and the record of what happened to it.                *)
NewQuery(kind, family, parent, target) ==
  [kind |-> kind, dns_lookup_family |-> family,
   parent |-> parent, target |-> target,
   fallback_if_failed_ |-> FALSE, completed_ |-> FALSE,
   cancelled_ |-> FALSE, owned_ |-> FALSE,
   deleted |-> 0, handle |-> FALSE,
   pending |-> "none", hints |-> <<>>, resps |-> <<>>,
   calls |-> 0, cbStatus |-> "none", cbList |-> <<>>, cbInDestroy |-> FALSE,
   cancelledBeforeFire |-> FALSE,
   srv_records |-> <<>>, subsIssued |-> 0, subsDone |-> 0, subsAddrs |-> 0]

(* A slot of the arena that holds no query object. *)
NoQuery == NewQuery("free", "none", 0, 0)

(* What the operation in progress has done so far: the circumstances of a  *)
(* channel replacement, whether a request of a new call was made while the *)
(* dirty flag was set, the answer an SRV request got, the count taken by   *)
(* the destructor, the query objects it has created, the queries whose     *)
(* callback threw, how many exceptions were posted to the dispatcher,      *)
(* whether one left the resolver's code uncaught, and whether resolver     *)
(* state was used after the resolver's destruction, the address queries    *)
(* outstanding on a channel when it was replaced, whether a new query was  *)
(* made before all of them were gone, the queries that set the dirty flag, *)
(* whether an ASSERT(owned_) failed, in the order they happened the        *)
(* answers the channel gave and the callbacks of callers that were raised, *)
(* and, if the operation is onEventCallback, who called it (the file event *)
(* of a ready fd or the timer), with which arguments, and the fds it       *)
(* passed to ares_process_fd.                                              *)
NoStep ==
  [reinit |-> FALSE, reinitOutstanding |-> FALSE, reinitInProcessing |-> FALSE,
   issuedOnDirty |-> FALSE,
   srv |-> 0, srvOutcome |-> "none", srvStatus |-> "none",
   teardown |-> FALSE, K |-> 0, notified |-> 0,
   created |-> {},
   threw |-> {}, posted |-> 0, escaped |-> FALSE,
   useAfterDestroy |-> FALSE,
   reinitOld |-> {}, issuedBeforeDrained |-> FALSE, dirtied |-> {},
   assertOwnedFailed |-> FALSE, log |-> <<>>,
   op |-> "none",
   event |-> [fd |-> ARES_SOCKET_BAD, events |-> {}],
   process |-> [read_fd |-> ARES_SOCKET_BAD, write_fd |-> ARES_SOCKET_BAD]]

(* The state the operators below transform. *)
State ==
  [queries |-> queries, dirty_channel_ |-> dirty_channel_,
   destroyed |-> destroyed, step |-> step, timer_ |-> timer_]

(* Calling context: inside a callback the channel is invoking, inside      *)
(* ares_destroy, whether a read of the freed SRV reply yields garbage, and *)
(* what the caller's callback does if it is raised (nothing, or a new      *)
(* resolve() from inside the callback).                                    *)
Ctx(inProc, inDestroy, garbage, act) ==
  [inProc |-> inProc, inDestroy |-> inDestroy, garbage |-> garbage, act |-> act]

(* The slots a new query object can take. *)
FreeSlots(s) == {i \in 1..MaxQueries : s.queries[i].kind = "free"}

NewId(s) == CHOOSE i \in FreeSlots(s) : \A j \in FreeSlots(s) : i <= j

(* ---------------------------------------------------------------------- *)
(* PendingResolution and PendingSrvResolution                              *)
(* ---------------------------------------------------------------------- *)

RECURSIVE getAddrInfo(_, _, _, _, _)
RECURSIVE onAresGetAddrInfoCallback(_, _, _, _, _, _)
RECURSIVE ares_destroy_from(_, _, _)
RECURSIVE SrvFanOut(_, _, _, _, _, _)

(* `delete this`, and the unique_ptr of resolve()/resolveSrv() going out   *)
(* of scope: the object is destroyed (counted, to see a second one).       *)
DeleteThis(s, id) == [s EXCEPT !.queries[id].deleted = @ + 1]

(* The cancelled_ check left out. *)
RaiseAddrCallbackAlways(q) == TRUE

(* Line 106 and line 175: the address callback is raised unless cancelled. *)
RaiseAddrCallback(q) == ~q.cancelled_

(* The cancelled_ check of the SRV delivery left out. *)
RaiseSrvCallbackAlways(q) == TRUE

(* Line 388: the SRV callback is raised unless cancelled. *)
RaiseSrvCallback(q) == ~q.cancelled_

(* The fallback check left out. *)
MarksDirtyAnyAttempt(q, status) == status = ARES_ECONNREFUSED

(* Lines 112 and 124: the answer marks the channel dirty. *)
MarksDirty(q, status) == ~q.fallback_if_failed_ /\ status = ARES_ECONNREFUSED

(* The completed_ check left out. *)
TakeFallbackCompleted(q) == q.fallback_if_failed_

(* Line 195: the one-shot fallback to IPv4 is taken. *)
TakeFallback(q) == ~q.completed_ /\ q.fallback_if_failed_

(* The fallback armed for every family but V4Only. *)
FallbackIfFailedNotV4(dns_lookup_family) == dns_lookup_family # "V4Only"

(* Lines 278-280: the fallback is armed for Auto. *)
FallbackIfFailed(dns_lookup_family) == dns_lookup_family = "Auto"

(* IPv4 first unless V6Only. *)
FirstFamilyV4(dns_lookup_family) ==
  IF dns_lookup_family = "V6Only" THEN AF_INET6 ELSE AF_INET

(* Lines 282-286: the family of the first request. *)
FirstFamily(dns_lookup_family) ==
  IF dns_lookup_family = "V4Only" THEN AF_INET ELSE AF_INET6

(* Line 131/167: the status reported to the caller. *)
(* Every status reported as Success. *)
ResolutionStatusAlwaysSuccess(status) == "Success"

(* Lines 131-132 and 165-167: Success for ARES_SUCCESS, Failure otherwise. *)
ResolutionStatusOf(status) ==
  IF status = ARES_SUCCESS THEN "Success" ELSE "Failure"

(* The caller's ResolveCb / ResolveSrvCb is invoked and sees the result. *)
RecordCallback(s, id, status, list, ctx) ==
  [s EXCEPT !.step.log = Append(@, [ev |-> "callback", id |-> id]),
            !.queries[id].calls = @ + 1,
            !.queries[id].cbStatus = status,
            !.queries[id].cbList = list,
            !.queries[id].cbInDestroy = ctx.inDestroy]

(* Line 337 over the reply list: the SrvDnsResponse records. *)
SrvRecords(srv_reply) ==
  [i \in 1..Len(srv_reply) |->
     SrvDnsResponse(srv_reply[i].host, srv_reply[i].port, srv_reply[i].ttl,
                    srv_reply[i].weight)]

(* A read through the captured current_reply pointer: the reply, or        *)
(* whatever the freed memory holds once ares_free_data (line 369) has run. *)
CurrentReply(n, target, garbage) ==
  IF garbage
  THEN [host |-> 0, port |-> 0, priority |-> 0, weight |-> 0, ttl |-> 0]
  ELSE SrvReply(n)[target]

(* Lines 351-357: the lambda's copy of srv_records after one instance per  *)
(* returned address has been appended to it.                               *)
LambdaSrvRecords(captured, response, current_reply) ==
  captured \o
  [i \in 1..Len(response) |->
     SrvInstanceImpl(getAddressWithPort(response[i].address_, current_reply.port),
                     current_reply.priority, current_reply.weight)]

(* Line 358: the lambda's own copy of finished, once incremented, against  *)
(* the size of its copy of srv_records.                                    *)
LambdaBarrier(finished, srv_records) == finished + 1 = Len(srv_records)

(* Lines 178-187 and 391-400: an exception thrown by the callback of query *)
(* id is caught and posted to the dispatcher.                              *)
CatchAndPost(s, id) ==
  [s EXCEPT !.step.threw = @ \cup {id}, !.step.posted = @ + 1]

(* Line 107: the callback of query id throws where no handler encloses the *)
(* call; the exception leaves onAresGetAddrInfoCallback.                   *)
Uncaught(s, id) ==
  [s EXCEPT !.step.threw = @ \cup {id}, !.step.escaped = TRUE]

(* The requests outstanding on the channel. *)
Outstanding(s) == {i \in 1..MaxQueries : s.queries[i].pending # "none"}

(* Line 207: ares_timeout reports a timeout (a non-null result) while the  *)
(* channel has a request outstanding.                                      *)
ares_timeout(s) == Outstanding(s) # {}

(* The timer left as it is. *)
updateAresTimerUnchanged(s) ==
  IF s.destroyed THEN [s EXCEPT !.step.useAfterDestroy = TRUE] ELSE s

(* Lines 204-216: updateAresTimer reads channel_ and arms or disables      *)
(* timer_, members of the resolver.                                        *)
updateAresTimer(s) ==
  IF s.destroyed THEN [s EXCEPT !.step.useAfterDestroy = TRUE]
  ELSE [s EXCEPT !.timer_ = ares_timeout(s)]

(* Lines 381-407. *)
onAresSrvFinishCallback(s, id, srv_records, ctx) ==
  LET s1 == IF srv_records # <<>>
            THEN [s EXCEPT !.queries[id].completed_ = TRUE]
            ELSE s
  IN IF s1.queries[id].completed_
     THEN LET called == RecordCallback(s1, id, "Srv", srv_records, ctx)
              s2 == IF ~RaiseSrvCallback(s1.queries[id]) THEN s1
                    ELSE IF ctx.act = "throw" THEN CatchAndPost(called, id)
                    ELSE called
          IN IF s2.queries[id].owned_ THEN DeleteThis(s2, id) ELSE s2
     ELSE s1

(* Lines 349-361: the callback given to resolve() for one SRV target.      *)
(* finished (0, line 343) and srv_records are captured by value.           *)
SrvTargetLambda(s, id, response, ctx) ==
  LET q == s.queries[id]
      p == q.parent
      captured == s.queries[p].srv_records
      current_reply == CurrentReply(Len(captured), q.target, ctx.garbage)
      srv_records == LambdaSrvRecords(captured, response, current_reply)
      s1 == [s EXCEPT !.queries[id].calls = @ + 1,
                      !.queries[p].subsDone = @ + 1,
                      !.queries[p].subsAddrs = @ + Len(response)]
  IN IF LambdaBarrier(0, srv_records)
     THEN onAresSrvFinishCallback(s1, p, srv_records, ctx)
     ELSE s1

(* Lines 99-111: the ARES_EDESTRUCTION branch of                            *)
(* onAresGetAddrInfoCallback. A caller's callback raised here returns      *)
(* without calling into the resolver, or throws: the call of line 107 is   *)
(* in no try block, so the exception skips line 109.                       *)
AddrDestruction(s, id, ctx) ==
  LET s0 == [s EXCEPT !.queries[id].resps =
                        Append(@, [status |-> ARES_EDESTRUCTION, n |-> 0]),
                      !.step.log = Append(@, [ev |-> "answer", id |-> id]),
                      !.step.assertOwnedFailed = @ \/ ~s.queries[id].owned_]
      s1 == IF ~RaiseAddrCallback(s0.queries[id]) THEN s0
            ELSE IF s0.queries[id].parent = 0
            THEN RecordCallback(s0, id, "Failure", <<>>, ctx)
            ELSE SrvTargetLambda(s0, id, <<>>, ctx)
  IN IF /\ RaiseAddrCallback(s0.queries[id])
        /\ s0.queries[id].parent = 0
        /\ ctx.act = "throw"
     THEN Uncaught(s1, id)
     ELSE DeleteThis(s1, id)

(* Lines 320-325: the ARES_EDESTRUCTION branch of onAresSrvStartCallback.  *)
SrvDestruction(s, id) ==
  DeleteThis([s EXCEPT !.queries[id].resps =
                         Append(@, [status |-> ARES_EDESTRUCTION, n |-> 0]),
                       !.step.log = Append(@, [ev |-> "answer", id |-> id]),
                       !.step.assertOwnedFailed = @ \/ ~s.queries[id].owned_],
             id)

(* ares_destroy: every request outstanding on the channel is answered with *)
(* ARES_EDESTRUCTION, until an exception leaves one of the callbacks.      *)
ares_destroy_from(s, i, ctx) ==
  IF i > MaxQueries \/ s.step.escaped
  THEN s
  ELSE
    LET q == s.queries[i]
        s0 == [s EXCEPT !.queries[i].pending = "none"]
        s1 == IF q.pending = "none" THEN s
              ELSE IF q.kind = "addr" THEN AddrDestruction(s0, i, ctx)
              ELSE SrvDestruction(s0, i)
    IN ares_destroy_from(s1, i + 1, ctx)

ares_destroy(s, ctx) ==
  ares_destroy_from(s, 1, Ctx(TRUE, TRUE, FALSE, ctx.act))

(* Lines 81-95: a new channel, and the dirty flag cleared. *)
initializeChannel(s) == [s EXCEPT !.dirty_channel_ = FALSE]

(* Lines 270-274: a dirty channel is destroyed and a new one initialized,  *)
(* unless an exception leaves ares_destroy.                                *)
ReinitializeIfDirty(s, ctx) ==
  IF ~s.dirty_channel_ THEN s
  ELSE CHOOSE r \in
         {IF s1.step.escaped THEN s1 ELSE initializeChannel(s1) :
            s1 \in {ares_destroy(
                      [s EXCEPT !.step.reinit = TRUE,
                                !.step.reinitOutstanding = @ \/ Outstanding(s) # {},
                                !.step.reinitInProcessing = @ \/ ctx.inProc,
                                !.step.reinitOld =
                                  @ \cup {i \in Outstanding(s) :
                                            s.queries[i].kind = "addr"}],
                      ctx)}} : TRUE

(* The object handed over without owned_ being set. *)
preparePendingResolutionNotOwned(s, id) ==
  IF s.queries[id].completed_
  THEN DeleteThis([s EXCEPT !.queries[id].handle = FALSE], id)
  ELSE updateAresTimer([s EXCEPT !.queries[id].handle = TRUE])

(* Lines 246-261. *)
preparePendingResolution(s, id) ==
  IF s.queries[id].completed_
  THEN DeleteThis([s EXCEPT !.queries[id].handle = FALSE], id)
  ELSE updateAresTimer([s EXCEPT !.queries[id].owned_ = TRUE,
                                 !.queries[id].handle = TRUE])

(* Lines 269-280: the dirty check and the new PendingResolution, placed in *)
(* slot id. parent/target are set when the call is made by the SRV         *)
(* fan-out, whose callback is the lambda. Nothing is constructed when an  *)
(* exception left the channel's replacement (s1 is the state after it).    *)
NewPendingResolution(s, id, dns_lookup_family, parent, target, ctx) ==
  CHOOSE r \in
    {IF s1.step.escaped THEN s1 ELSE
     [s1 EXCEPT !.queries[id] =
                  [NewQuery("addr", dns_lookup_family, parent, target)
                     EXCEPT !.fallback_if_failed_ = FallbackIfFailed(dns_lookup_family)],
                !.step.issuedOnDirty = @ \/ s1.dirty_channel_,
                !.step.created = @ \cup {id},
                !.step.issuedBeforeDrained =
                  @ \/ \E i \in s1.step.reinitOld : s1.queries[i].deleted = 0] :
       s1 \in {ReinitializeIfDirty(s, ctx)}} : TRUE

(* Lines 301-306 when the channel does not answer inside the call: the     *)
(* request is outstanding.                                                 *)
IssueRequest(s, id, family) ==
  [s EXCEPT !.queries[id].hints = Append(@, family),
            !.queries[id].pending = family]

(* Lines 39-42: ~DnsResolverImpl. The step records how many top-level      *)
(* queries, not cancelled, had a request of their own or of one of their   *)
(* sub-resolutions outstanding when the destructor started (K), and how    *)
(* many of them it notified with an empty result.                          *)
Waiting(s) ==
  {i \in 1..MaxQueries :
     /\ s.queries[i].kind # "free"
     /\ s.queries[i].parent = 0
     /\ s.queries[i].handle
     /\ s.queries[i].deleted = 0
     /\ s.queries[i].calls = 0
     /\ ~s.queries[i].cancelled_
     /\ \E j \in Outstanding(s) : j = i \/ s.queries[j].parent = i}

DestroyResolver(s, ctx) ==
  LET s1 == ares_destroy([s EXCEPT !.timer_ = FALSE], ctx)
  IN [s1 EXCEPT !.destroyed = TRUE,
                !.step.teardown = TRUE,
                !.step.K = Cardinality(Waiting(s)),
                !.step.notified = Cardinality({i \in Waiting(s) :
                                                /\ s1.queries[i].calls = 1
                                                /\ s1.queries[i].cbList = <<>>})]

(* Lines 263-289, called from inside a caller's callback: V4Only, answered *)
(* later by the channel.                                                   *)
resolveFromCallback(s, ctx) ==
  LET id == NewId(s)
      s1 == NewPendingResolution(s, id, "V4Only", 0, 0, ctx)
  IN preparePendingResolution(IssueRequest(s1, id, FirstFamily("V4Only")), id)

(* Lines 176-187: the caller's ResolveCb runs inside the try block: it     *)
(* sees the result, and before it returns it may call resolve() again,     *)
(* throw, or destroy the resolver.                                         *)
CallerCallback(s, id, status, list, ctx) ==
  LET s1 == RecordCallback(s, id, status, list, ctx)
  IN IF ctx.act = "resolve" /\ FreeSlots(s1) # {}
     THEN resolveFromCallback(s1, ctx)
     ELSE IF ctx.act = "throw"
     THEN CatchAndPost(s1, id)
     ELSE IF ctx.act = "destroy"
     THEN DestroyResolver(s1, [ctx EXCEPT !.act = "none"])
     ELSE s1

(* callback_ of an address query (line 177): the caller's ResolveCb, or    *)
(* the lambda of the SRV fan-out.                                          *)
callback_(s, id, status, list, ctx) ==
  IF s.queries[id].parent = 0
  THEN CallerCallback(s, id, status, list, ctx)
  ELSE SrvTargetLambda(s, id, list, ctx)

(* Lines 291-307: the request is made with the family hint; the channel    *)
(* answers inside the call (syncs gives the answer) or later.              *)
getAddrInfo(s, id, family, syncs, ctx) ==
  IF syncs = <<>>
  THEN IssueRequest(s, id, family)
  ELSE onAresGetAddrInfoCallback(
         [s EXCEPT !.queries[id].hints = Append(@, family)], id,
         Head(syncs).status,
         IF Head(syncs).status = ARES_SUCCESS
         THEN AddrInfoNodes(family, Head(syncs).n) ELSE <<>>,
         Tail(syncs), [ctx EXCEPT !.inProc = TRUE, !.garbage = FALSE])

(* Lines 97-202. *)
onAresGetAddrInfoCallback(s, id, status, addrinfo, syncs, ctx) ==
  IF status = ARES_EDESTRUCTION
  THEN AddrDestruction(s, id, ctx)
  ELSE
    LET s0 == [s EXCEPT !.queries[id].resps =
                          Append(@, [status |-> status, n |-> Len(addrinfo)]),
                        !.step.log = Append(@, [ev |-> "answer", id |-> id])]
        sc == IF ~s0.queries[id].fallback_if_failed_
              THEN [s0 EXCEPT !.queries[id].completed_ = TRUE]
              ELSE s0
        s1 == IF MarksDirty(s0.queries[id], status)
              THEN [sc EXCEPT !.dirty_channel_ = TRUE,
                              !.step.dirtied = @ \cup {id}]
              ELSE sc
        address_list == IF status = ARES_SUCCESS THEN AddressList(addrinfo) ELSE <<>>
        resolution_status == ResolutionStatusOf(status)
        s2 == IF address_list # <<>>
              THEN [s1 EXCEPT !.queries[id].completed_ = TRUE]
              ELSE s1
        s3 == IF s2.queries[id].completed_ /\ RaiseAddrCallback(s2.queries[id])
              THEN callback_(s2, id, resolution_status, address_list, ctx)
              ELSE s2
    IN IF s2.queries[id].completed_ /\ s3.queries[id].owned_
       THEN DeleteThis(s3, id)
       ELSE IF TakeFallback(s3.queries[id])
            THEN getAddrInfo([s3 EXCEPT !.queries[id].fallback_if_failed_ = FALSE],
                             id, AF_INET, syncs, ctx)
            ELSE s3

(* Lines 263-289. *)
resolve(s, dns_lookup_family, parent, target, syncs, ctx) ==
  LET id == NewId(s)
  IN CHOOSE r \in
       {IF s1.step.escaped THEN s1
        ELSE preparePendingResolution(
               getAddrInfo(s1, id, FirstFamily(dns_lookup_family), syncs, ctx), id) :
          s1 \in {NewPendingResolution(s, id, dns_lookup_family,
                                       parent, target, ctx)}} : TRUE

(* Lines 345-363: one resolve() per parsed reply, in list order, each with *)
(* the SRV query's lookup family and the lambda as its callback.           *)
SrvFanOut(s, id, i, n, subsyncs, ctx) ==
  IF i > n
  THEN s
  ELSE SrvFanOut(
         resolve([s EXCEPT !.queries[id].subsIssued = @ + 1],
                 s.queries[id].dns_lookup_family, id, i, subsyncs[i], ctx),
         id, i + 1, n, subsyncs, ctx)

(* Lines 318-379. buf is the answer: the status ares_parse_srv_reply gives *)
(* for it and the number of SRV records it holds.                          *)
onAresSrvStartCallback(s, id, status, buf, subsyncs, ctx) ==
  IF status = ARES_EDESTRUCTION
  THEN SrvDestruction(s, id)
  ELSE
    LET parsed == status = ARES_SUCCESS /\ buf.parse = ARES_SUCCESS
        srv_reply == IF parsed THEN SrvReply(buf.n) ELSE <<>>
        s1 == [s EXCEPT !.step.srv = id,
                        !.step.log = Append(@, [ev |-> "answer", id |-> id]),
                        !.step.srvStatus = status,
                        !.step.srvOutcome =
                          IF parsed THEN "parsed"
                          ELSE IF status = ARES_SUCCESS THEN "badparse" ELSE "failed",
                        !.queries[id].srv_records = SrvRecords(srv_reply)]
    IN IF parsed
       THEN SrvFanOut(s1, id, 1, Len(srv_reply), subsyncs, ctx)
       ELSE onAresSrvFinishCallback(s1, id, <<>>, ctx)

(* Lines 409-416: the SRV request is made; the channel fails it inside the *)
(* call (sync) or answers later.                                           *)
getSrvByName(s, id, sync, ctx) ==
  IF sync = <<>>
  THEN [s EXCEPT !.queries[id].pending = "SRV"]
  ELSE onAresSrvStartCallback(s, id, Head(sync).status,
                              [parse |-> Head(sync).status, n |-> 0], <<>>,
                              [ctx EXCEPT !.inProc = TRUE, !.garbage = FALSE])

(* Lines 309-316. *)
resolveSrv(s, dns_lookup_family, sync, ctx) ==
  LET id == NewId(s)
      pending_srv_res == NewQuery("srv", dns_lookup_family, 0, 0)
      s1 == [s EXCEPT !.queries[id] = pending_srv_res,
                      !.step.issuedOnDirty = @ \/ s.dirty_channel_,
                      !.step.created = @ \cup {id}]
      s2 == getSrvByName(s1, id, sync, ctx)
  IN preparePendingResolution(s2, id)

(* ---------------------------------------------------------------------- *)
(* Socket watches (events_)                                                *)
(* ---------------------------------------------------------------------- *)

(* The sockets of the channel. *)
Fds == 1..MaxFds

(* Event::FileReadyType: a mask of these is a set of them. *)
FileReadyType == {"Read", "Write"}

(* The mask is left as it was on a watch that exists already. *)
onAresSocketStateChangeStaleMask(map, fd, read, write) ==
  IF read = 0 /\ write = 0
  THEN [f \in DOMAIN map \ {fd} |-> map[f]]
  ELSE IF fd \in DOMAIN map THEN map
  ELSE [f \in DOMAIN map \cup {fd} |->
          IF f = fd
          THEN [fd |-> fd,
                enabled |-> (IF read # 0 THEN {"Read"} ELSE {})
                              \cup (IF write # 0 THEN {"Write"} ELSE {})]
          ELSE map[f]]

(* Lines 227-243: the events_ map (fd -> FileEvent) after a socket state   *)
(* change of fd. The watch of fd is erased if neither direction is wanted; *)
(* otherwise it is created, registered for both directions, if the map has *)
(* none, and its enabled mask is set.                                      *)
onAresSocketStateChange(map, fd, read, write) ==
  LET it == fd \in DOMAIN map
      created == IF it THEN map
                 ELSE [f \in DOMAIN map \cup {fd} |->
                         IF f = fd
                         THEN [fd |-> fd, enabled |-> FileReadyType]
                         ELSE map[f]]
  IN IF read = 0 /\ write = 0
     THEN IF it THEN [f \in DOMAIN map \ {fd} |-> map[f]] ELSE map
     ELSE [created EXCEPT ![fd].enabled =
             (IF read # 0 THEN {"Read"} ELSE {})
               \cup (IF write # 0 THEN {"Write"} ELSE {})]

(* ---------------------------------------------------------------------- *)
(* The state machine                                                       *)
(* ---------------------------------------------------------------------- *)

Install(s) ==
  /\ queries' = s.queries
  /\ dirty_channel_' = s.dirty_channel_
  /\ destroyed' = s.destroyed
  /\ step' = s.step
  /\ UNCHANGED <<validation, events_, reported>>
  /\ timer_' = s.timer_

(* Lines 27-37: the constructor initializes the first channel. *)
Init ==
  /\ queries = [i \in 1..MaxQueries |-> NoQuery]
  /\ dirty_channel_ = FALSE
  /\ destroyed = FALSE
  /\ step = NoStep
  /\ validation = <<>>
  /\ timer_ = FALSE
  /\ events_ = [fd \in {} |-> fd]
  /\ reported = [fd \in Fds |-> [seen |-> FALSE, read |-> 0, write |-> 0]]

(* The record of a destroyed query object is kept until its storage is    *)
(* released, which waits while a request of it is still outstanding or a   *)
(* live sub-resolution still points to it.                                 *)
Retired(i) ==
  \/ queries[i].kind = "free"
  \/ /\ queries[i].deleted > 0
     /\ queries[i].pending = "none"
     /\ \A j \in 1..MaxQueries : queries[j].parent = i => queries[j].deleted > 0

(* The objects that remain are kept in the order they were created, in the *)
(* first slots of the arena (a slot number is only a name for the object). *)
Kept == SelectSeq([i \in 1..MaxQueries |-> i], LAMBDA i : ~Retired(i))

(* The state once the storage of the destroyed objects is released and    *)
(* the record of the last operation is dropped.                            *)
Cur ==
  LET kept == Kept
      rank(p) == IF p = 0 THEN 0
                 ELSE IF \E k \in 1..Len(kept) : kept[k] = p
                 THEN CHOOSE k \in 1..Len(kept) : kept[k] = p
                 ELSE 0
  IN [State EXCEPT
        !.queries = [k \in 1..MaxQueries |->
                       IF k <= Len(kept)
                       THEN [queries[kept[k]] EXCEPT !.parent = rank(@)]
                       ELSE NoQuery],
        !.step = NoStep]

(* No destroyed object is left to release: an operation can start. *)
Settled == State = Cur

(* Answers the channel can give inside the issuing call. *)
SyncOutcomes ==
  {[status |-> ARES_SUCCESS, n |-> 1], [status |-> ARES_ENOTFOUND, n |-> 0]}

(* The answers given inside the call to the requests of one resolve():     *)
(* none, the first request's, or a failed first and the fallback's too     *)
(* (a second request is made only under Auto).                             *)
SyncSeqs(dns_lookup_family) ==
  {<<>>} \cup {<<o>> : o \in SyncOutcomes}
         \cup {<<[status |-> ARES_ENOTFOUND, n |-> 0], o>> :
                 o \in IF dns_lookup_family = "Auto" THEN SyncOutcomes ELSE {}}

(* Answers the channel can give from ares_process_fd. *)
AsyncOutcomes ==
  {[status |-> ARES_SUCCESS, n |-> n] : n \in 0..MaxAddrs}
    \cup {[status |-> ARES_ENOTFOUND, n |-> 0],
          [status |-> ARES_ECONNREFUSED, n |-> 0]}

(* Answers to an SRV request: a failure status, a no-data status, an       *)
(* answer that does not parse, or an answer that parses to n records.      *)
SrvOutcomes ==
  {[status |-> ARES_ENOTFOUND, parse |-> ARES_ENOTFOUND, n |-> 0],
   [status |-> ARES_ENODATA, parse |-> ARES_ENODATA, n |-> 0],
   [status |-> ARES_SUCCESS, parse |-> ARES_EBADRESP, n |-> 0]}
    \cup {[status |-> ARES_SUCCESS, parse |-> ARES_SUCCESS, n |-> n] :
            n \in 0..MaxTargets}

(* ActiveDnsQuery::cancel() on a handle that is still valid. *)
cancel(s, id) ==
  [s EXCEPT !.queries[id].cancelled_ = TRUE,
            !.queries[id].cancelledBeforeFire = @ \/ s.queries[id].calls = 0]

(* A caller calls resolve(); a callback raised inside the call returns,   *)
(* throws, or destroys the resolver.                                       *)
Resolve ==
  /\ ~destroyed
  /\ Settled
  /\ LET c == State
     IN /\ FreeSlots(c) # {}
        /\ \E family \in DnsLookupFamily, act \in {"none", "throw", "destroy"} :
              \E syncs \in SyncSeqs(family) :
                Install(resolve(c, family, 0, 0, syncs,
                                Ctx(FALSE, FALSE, FALSE, act)))

(* A caller calls resolveSrv(). *)
ResolveSrv ==
  /\ ~destroyed
  /\ Settled
  /\ LET c == State
     IN /\ FreeSlots(c) # {}
        /\ \E family \in DnsLookupFamily,
               sync \in {<<>>, <<[status |-> ARES_ENOTFOUND, n |-> 0]>>} :
              Install(resolveSrv(c, family, sync, Ctx(FALSE, FALSE, FALSE, "none")))

(* A caller cancels a query through its handle. *)
Cancel ==
  /\ ~destroyed
  /\ Settled
  /\ LET c == State
     IN \E id \in 1..MaxQueries :
          /\ c.queries[id].handle
          /\ c.queries[id].parent = 0
          /\ c.queries[id].deleted = 0
          /\ c.queries[id].calls = 0
          /\ ~c.queries[id].cancelled_
          /\ Install(cancel(c, id))

(* Lines 218-220: onEventCallback, called by the file event of fd with the *)
(* ready events or by the timer, passes fd to ares_process_fd as read_fd   *)
(* if Read is among the events and as write_fd if Write is, and            *)
(* ARES_SOCKET_BAD otherwise.                                              *)
onEventCallback(s, caller, fd, events) ==
  [s EXCEPT !.step.op = caller,
            !.step.event = [fd |-> fd, events |-> events],
            !.step.process =
              [read_fd |-> IF "Read" \in events THEN fd ELSE ARES_SOCKET_BAD,
               write_fd |-> IF "Write" \in events THEN fd ELSE ARES_SOCKET_BAD]]

(* The notification that brings an answer: its fd is ready for reading.    *)
(* Of these notifications the one of the first fd is followed; every fd    *)
(* and every mask is followed by Readiness.                                *)
AnswerEvent == [fd |-> 1, events |-> {"Read"}]

(* What the caller's callback can do if the answer to a request of query  *)
(* id leads to one: the callback of a top-level query can do anything (a   *)
(* new resolve() needs a free slot), the SRV callback a sub-resolution's   *)
(* answer may lead to can throw.                                           *)
CallbackActsOf(s, id) ==
  IF s.queries[id].parent = 0
  THEN IF s.queries[id].cancelled_ THEN {"none"}
       ELSE IF FreeSlots(s) # {} THEN CallbackActs
       ELSE CallbackActs \ {"resolve"}
  ELSE IF s.queries[s.queries[id].parent].cancelled_ THEN {"none"}
       ELSE {"none", "throw"}

(* Lines 218-223: onEventCallback drives ares_process_fd, which completes  *)
(* an outstanding address request, and then updates the timer. The         *)
(* fallback request it may make is answered inside the call (sync) or      *)
(* later; the caller's callback, if raised, does act; a read of the freed  *)
(* SRV reply may give garbage.                                             *)
AddrResponse ==
  /\ ~destroyed
  /\ Settled
  /\ LET c == onEventCallback(State, "ready", AnswerEvent.fd, AnswerEvent.events)
     IN \E id \in 1..MaxQueries :
          LET q == c.queries[id]
          IN /\ q.pending \in {AF_INET, AF_INET6}
             /\ \E o \in AsyncOutcomes :
                  \E sync \in IF q.fallback_if_failed_ /\ o.n = 0
                              THEN {<<>>} \cup {<<x>> : x \in SyncOutcomes}
                              ELSE {<<>>},
                     garbage \in IF q.parent # 0 /\ o.n > 0
                                 THEN BOOLEAN ELSE {FALSE},
                     act \in CallbackActsOf(c, id) :
                    Install(updateAresTimer(
                      onAresGetAddrInfoCallback(
                        [c EXCEPT !.queries[id].pending = "none"], id,
                        o.status,
                        IF o.status = ARES_SUCCESS
                        THEN AddrInfoNodes(q.pending, o.n) ELSE <<>>,
                        sync, Ctx(TRUE, FALSE, garbage, act))))

(* onEventCallback drives ares_process_fd, which completes an outstanding  *)
(* SRV request; each resolve() of the fan-out is answered inside the call  *)
(* or later.                                                               *)
SrvResponse ==
  /\ ~destroyed
  /\ Settled
  /\ LET c == onEventCallback(State, "ready", AnswerEvent.fd, AnswerEvent.events)
     IN \E id \in 1..MaxQueries :
          /\ c.queries[id].pending = "SRV"
          /\ \E o \in SrvOutcomes :
               /\ Cardinality(FreeSlots(c)) >= o.n
               /\ \E subsyncs \in [1..o.n -> SyncSeqs(c.queries[id].dns_lookup_family)] :
                    Install(updateAresTimer(
                      onAresSrvStartCallback(
                        [c EXCEPT !.queries[id].pending = "none"], id, o.status,
                        [parse |-> o.parse, n |-> o.n], subsyncs,
                        Ctx(TRUE, FALSE, FALSE, "none"))))

(* Lines 218-223: the file event of fd signals readiness, and the         *)
(* processing does not complete a request (a partial read, or a write);    *)
(* the timer is updated. These notifications are followed while at most    *)
(* MaxReadinessObjects query objects exist.                                *)
Readiness ==
  /\ ~destroyed
  /\ Settled
  /\ Cardinality(FreeSlots(State)) >= MaxQueries - MaxReadinessObjects
  /\ \E fd \in Fds, events \in (SUBSET FileReadyType) \ {{}} :
       Install(updateAresTimer(onEventCallback(State, "ready", fd, events)))

(* Line 32: the timer fires (and is no longer armed) and calls             *)
(* onEventCallback(ARES_SOCKET_BAD, 0): ares_process_fd handles the        *)
(* timeouts, which completes nothing, or ends an outstanding address       *)
(* request with ARES_ETIMEOUT; the timer is updated.                       *)
OnTimer ==
  /\ ~destroyed
  /\ Settled
  /\ timer_
  /\ LET c == onEventCallback([State EXCEPT !.timer_ = FALSE],
                              "timer", ARES_SOCKET_BAD, {})
     IN \/ Install(updateAresTimer(c))
        \/ \E id \in 1..MaxQueries :
             /\ c.queries[id].pending \in {AF_INET, AF_INET6}
             /\ Install(updateAresTimer(
                  onAresGetAddrInfoCallback(
                    [c EXCEPT !.queries[id].pending = "none"], id,
                    ARES_ETIMEOUT, <<>>, <<>>, Ctx(TRUE, FALSE, FALSE, "none"))))

(* The resolver is destroyed by its owner; a callback the destructor       *)
(* raises returns or throws.                                               *)
Destroy ==
  /\ ~destroyed
  /\ Settled
  /\ \E act \in {"none", "throw"} :
       Install(DestroyResolver(State, Ctx(FALSE, TRUE, FALSE, act)))

(* The storage of the objects destroyed by the last operation is released  *)
(* before the event loop runs the next one. A run is not followed past an *)
(* exception that left the resolver.                                       *)
Reclaim ==
  /\ ~destroyed
  /\ ~step.escaped
  /\ ~Settled
  /\ Install(Cur)

Next ==
  \/ Resolve
  \/ ResolveSrv
  \/ Cancel
  \/ AddrResponse
  \/ SrvResponse
  \/ Destroy
  \/ Reclaim

Spec == Init /\ [][Next]_vars

(* The resolver with the notifications that complete nothing and with the  *)
(* timer, for the life of the timer: cancel() only sets a flag of a query  *)
(* and the destructor ends the timer, so neither is followed here.         *)
NextTimer ==
  \/ Resolve
  \/ ResolveSrv
  \/ AddrResponse
  \/ SrvResponse
  \/ Readiness
  \/ OnTimer
  \/ Reclaim

SpecTimer == Init /\ [][NextTimer]_vars

(* ---------------------------------------------------------------------- *)
(* ValidationDnsResolver (server/config_validation/dns.cc)                 *)
(* ---------------------------------------------------------------------- *)

(* Names given to the validation resolver. *)
DnsNames == {"localhost", "example.com"}

(* The callback answers with a failure status. *)
ValidationResolveFailure(dns_name, dns_lookup_family) ==
  [call |-> "resolve", dns_name |-> dns_name, family |-> dns_lookup_family,
   events |-> <<[ev |-> "callback", status |-> "Failure", list |-> <<>>],
                [ev |-> "return", handle |-> FALSE]>>]

(* Lines 6-10: what a call of ValidationDnsResolver::resolve does, in      *)
(* order: the callback, then the return of nullptr.                        *)
ValidationResolve(dns_name, dns_lookup_family) ==
  [call |-> "resolve", dns_name |-> dns_name, family |-> dns_lookup_family,
   events |-> <<[ev |-> "callback", status |-> "Success", list |-> <<>>],
                [ev |-> "return", handle |-> FALSE]>>]

(* Lines 12-16: what a call of ValidationDnsResolver::resolveSrv does. *)
ValidationResolveSrv(dns_name, dns_lookup_family) ==
  [call |-> "resolveSrv", dns_name |-> dns_name, family |-> dns_lookup_family,
   events |-> <<[ev |-> "callback", status |-> "none", list |-> <<>>],
                [ev |-> "return", handle |-> FALSE]>>]

(* A caller calls resolve() of the validation resolver. *)
CallValidationResolve ==
  /\ Len(validation) < MaxValidationCalls
  /\ \E dns_name \in DnsNames, family \in DnsLookupFamily :
       validation' = Append(validation, ValidationResolve(dns_name, family))
  /\ UNCHANGED <<queries, dirty_channel_, destroyed, step, events_, reported, timer_>>

(* A caller calls resolveSrv() of the validation resolver. *)
CallValidationResolveSrv ==
  /\ Len(validation) < MaxValidationCalls
  /\ \E dns_name \in DnsNames, family \in DnsLookupFamily :
       validation' = Append(validation, ValidationResolveSrv(dns_name, family))
  /\ UNCHANGED <<queries, dirty_channel_, destroyed, step, events_, reported, timer_>>

NextValidation ==
  \/ CallValidationResolve
  \/ CallValidationResolveSrv

SpecValidation == Init /\ [][NextValidation]_vars

(* ---------------------------------------------------------------------- *)
(* Socket state changes reported by the channel                            *)
(* ---------------------------------------------------------------------- *)

(* Lines 225-244: the channel reports that it wants fd watched for reading *)
(* (read # 0) and/or writing (write # 0), or not any more. The handler     *)
(* updates the timer and then the events_ map; reported keeps the last     *)
(* report for each fd.                                                     *)
OnAresSocketStateChange ==
  /\ ~destroyed
  /\ \E fd \in Fds, read \in {0, 1}, write \in {0, 1} :
       LET s == updateAresTimer(State)
       IN /\ queries' = s.queries
          /\ dirty_channel_' = s.dirty_channel_
          /\ destroyed' = s.destroyed
          /\ step' = s.step
          /\ timer_' = s.timer_
          /\ events_' = onAresSocketStateChange(events_, fd, read, write)
          /\ reported' = [reported EXCEPT
                            ![fd] = [seen |-> TRUE, read |-> read, write |-> write]]
          /\ UNCHANGED validation

NextSockets == OnAresSocketStateChange

SpecSockets == Init /\ [][NextSockets]_vars

(* ---------------------------------------------------------------------- *)
(* Properties                                                              *)
(* ---------------------------------------------------------------------- *)

Objects == {i \in 1..MaxQueries : queries[i].kind # "free"}

AddrQueries == {i \in Objects : queries[i].kind = "addr"}

SrvQueries == {i \in Objects : queries[i].kind = "srv"}

(* The last answer the channel gave to a request of query i. *)
LastResp(i) == queries[i].resps[Len(queries[i].resps)]

(* C1: a query cancelled through its handle before its callback fired has  *)
(* never had its callback invoked, whatever its request completed with.    *)
C1_CancelledNeverCalled ==
  \A i \in Objects : queries[i].cancelledBeforeFire => queries[i].calls = 0

(* A cancelled address query whose request then completed with addresses   *)
(* and whose object is gone, without a callback.                           *)
C1_Witness ==
  \E i \in AddrQueries :
    /\ queries[i].cancelledBeforeFire
    /\ queries[i].deleted = 1
    /\ queries[i].resps # <<>>
    /\ LastResp(i).status = ARES_SUCCESS
    /\ LastResp(i).n > 0
    /\ queries[i].calls = 0

(* C2: the completion callback of every query object is invoked at most    *)
(* once.                                                                   *)
C2_AtMostOnce ==
  \A i \in Objects : queries[i].calls <= 1

(* An Auto query that was answered twice (the IPv6 attempt and the         *)
(* fallback) and has had its one callback.                                 *)
C2_Witness ==
  \E i \in AddrQueries :
    /\ queries[i].dns_lookup_family = "Auto"
    /\ Len(queries[i].resps) = 2
    /\ queries[i].calls = 1
    /\ queries[i].deleted = 1

(* The first answer of query i produced no address (and was not the        *)
(* channel's destruction).                                                 *)
FirstAttemptEmpty(i) ==
  /\ queries[i].resps # <<>>
  /\ queries[i].resps[1].status # ARES_EDESTRUCTION
  /\ queries[i].resps[1].n = 0

(* C4: an Auto query asks for IPv6 first; it asks once more, for IPv4,     *)
(* exactly when the first attempt produced no address; nothing is          *)
(* delivered for the discarded first attempt; what the caller gets is the  *)
(* status and the addresses of the last attempt; there is no third         *)
(* attempt.                                                                *)
C4_AutoFallback ==
  \A i \in AddrQueries :
    queries[i].dns_lookup_family = "Auto" =>
      LET q == queries[i]
      IN /\ q.hints # <<>>
         /\ q.hints[1] = AF_INET6
         /\ Len(q.hints) <= 2
         /\ Len(q.hints) = 2 <=> FirstAttemptEmpty(i)
         /\ Len(q.hints) = 2 => q.hints[2] = AF_INET
         /\ (FirstAttemptEmpty(i) /\ Len(q.resps) = 1) => q.calls = 0
         /\ (q.parent = 0 /\ q.calls > 0) =>
              /\ Len(q.resps) = Len(q.hints)
              /\ q.cbStatus = "Success" <=> LastResp(i).status = ARES_SUCCESS
              /\ Len(q.cbList) = LastResp(i).n
              /\ \A k \in 1..Len(q.cbList) :
                   q.cbList[k].address_.family = q.hints[Len(q.hints)]

(* An Auto query whose IPv6 attempt failed and whose caller received the   *)
(* addresses of the IPv4 attempt.                                          *)
C4_Witness ==
  \E i \in AddrQueries :
    /\ queries[i].dns_lookup_family = "Auto"
    /\ queries[i].parent = 0
    /\ queries[i].hints = <<AF_INET6, AF_INET>>
    /\ queries[i].resps[1].status = ARES_ENOTFOUND
    /\ queries[i].calls = 1
    /\ queries[i].cbStatus = "Success"
    /\ Len(queries[i].cbList) = MaxAddrs

(* C5: every request of a V4Only query carries the IPv4 hint and every     *)
(* request of a V6Only query the IPv6 hint, whatever the answers are.      *)
C5_SingleFamily ==
  \A i \in AddrQueries :
    \A k \in 1..Len(queries[i].hints) :
      /\ queries[i].dns_lookup_family = "V4Only" => queries[i].hints[k] = AF_INET
      /\ queries[i].dns_lookup_family = "V6Only" => queries[i].hints[k] = AF_INET6

(* A V6Only query that was answered without an address and is finished,    *)
(* next to a V4Only query that was asked.                                  *)
C5_Witness ==
  \E i, j \in AddrQueries :
    /\ queries[i].dns_lookup_family = "V6Only"
    /\ queries[i].resps # <<>>
    /\ LastResp(i).n = 0
    /\ queries[i].hints = <<AF_INET6>>
    /\ queries[j].dns_lookup_family = "V4Only"
    /\ queries[j].hints = <<AF_INET>>

(* C3: when the resolver is destroyed while K queries that are not         *)
(* cancelled are outstanding (address and SRV queries alike, the SRV       *)
(* fan-out included), exactly K callbacks are invoked with a failure or    *)
(* empty result, one per such query, and cancelled queries receive none   *)
(* (the callbacks returning normally).                                     *)
C3_DestroyNotifiesAll ==
  (step.teardown /\ step.threw = {}) =>
    /\ step.notified = step.K
    /\ \A i \in Objects : queries[i].cancelled_ => queries[i].calls = 0

(* C6: no request of a new call, resolve() or resolveSrv(), is made while  *)
(* the dirty flag is set: the call replaces the channel first.             *)
C6_NoRequestOnDirtyChannel ==
  ~step.issuedOnDirty

(* C7: the channel is never replaced while a request made on it is         *)
(* outstanding, nor from inside the channel's own processing of an answer. *)
C7_NoReinitMidFlight ==
  step.reinit => ~step.reinitOutstanding /\ ~step.reinitInProcessing

(* The SRV query answered in this step got no SRV record: an answer that   *)
(* parses to zero targets, or a no-data answer.                            *)
ZeroSrvRecords ==
  /\ step.srv # 0
  /\ \/ step.srvOutcome = "parsed" /\ queries[step.srv].srv_records = <<>>
     \/ step.srvStatus = ARES_ENODATA

(* C8: a resolveSrv, not cancelled, whose answer holds no SRV record has   *)
(* its callback invoked exactly once, with an empty list, and makes no     *)
(* address sub-resolution.                                                 *)
C8_ZeroRecordsEmptyCallback ==
  (ZeroSrvRecords /\ ~queries[step.srv].cancelled_) =>
    /\ queries[step.srv].calls = 1
    /\ queries[step.srv].cbList = <<>>
    /\ queries[step.srv].subsIssued = 0

(* C9: a resolveSrv, not cancelled, whose answer parses to N >= 1 targets  *)
(* has its callback invoked exactly once, when all N sub-resolutions have  *)
(* reported and not before.                                                *)
C9_BarrierAtN ==
  \A i \in SrvQueries :
    (~queries[i].cancelled_ /\ queries[i].srv_records # <<>>) =>
      /\ queries[i].calls <= 1
      /\ queries[i].calls = 1 <=> queries[i].subsDone = Len(queries[i].srv_records)

(* C10: the list delivered by resolveSrv holds one endpoint per address    *)
(* its sub-resolutions returned, each with the port and the weight of an   *)
(* SRV target of the answer, and nothing else.                             *)
C10_EndpointsOnly ==
  \A i \in SrvQueries :
    queries[i].calls > 0 =>
      /\ Len(queries[i].cbList) = queries[i].subsAddrs
      /\ \A k \in 1..Len(queries[i].cbList) :
           /\ queries[i].cbList[k].type = "SrvInstanceImpl"
           /\ \E r \in 1..Len(queries[i].srv_records) :
                /\ queries[i].cbList[k].port = queries[i].srv_records[r].port
                /\ queries[i].cbList[k].weight = queries[i].srv_records[r].weight

(* The SRV query answered in this step got a status other than success,   *)
(* or an answer that does not parse.                                       *)
SrvRequestFailed ==
  /\ step.srv # 0
  /\ step.srvOutcome \in {"failed", "badparse"}

(* C11: a resolveSrv, not cancelled, whose SRV request ends with a status  *)
(* other than success or whose answer fails to parse has its callback      *)
(* invoked exactly once, with an empty list.                               *)
C11_SrvFailureEmptyCallback ==
  (SrvRequestFailed /\ ~queries[step.srv].cancelled_) =>
    /\ queries[step.srv].calls = 1
    /\ queries[step.srv].cbList = <<>>

(* The sub-resolutions of SRV query i. *)
SubResolutions(i) == {j \in AddrQueries : queries[j].parent = i}

(* C12: an SRV query cancelled before delivery never has its callback      *)
(* invoked, also when all its sub-resolutions complete; the                *)
(* sub-resolutions are not cancelled with it and run to completion (their  *)
(* own callback runs and they are destroyed).                              *)
C12_SrvCancelSuppressesDelivery ==
  \A i \in SrvQueries :
    queries[i].cancelledBeforeFire =>
      /\ queries[i].calls = 0
      /\ \A j \in SubResolutions(i) :
           /\ ~queries[j].cancelled_
           /\ (queries[j].pending = "none" /\ queries[j].resps # <<>>) =>
                (queries[j].calls = 1 /\ queries[j].deleted = 1)

(* A cancelled SRV query whose single sub-resolution has reported no       *)
(* address: the delivery point was reached (the object is destroyed)       *)
(* without a callback.                                                     *)
C12_Witness ==
  \E i \in SrvQueries :
    /\ queries[i].cancelledBeforeFire
    /\ queries[i].srv_records # <<>>
    /\ queries[i].subsDone = Len(queries[i].srv_records)
    /\ queries[i].deleted = 1
    /\ queries[i].calls = 0
    /\ \E j \in SubResolutions(i) : queries[j].calls = 1 /\ queries[j].deleted = 1

(* The request of query object i, and every sub-resolution made for it,    *)
(* has terminated.                                                         *)
Terminated(i) ==
  /\ queries[i].pending = "none"
  /\ \A j \in SubResolutions(i) : queries[j].pending = "none"

(* C13: every query object is destroyed exactly once: never twice, and     *)
(* never zero times once its request has terminated.                       *)
C13_DestroyedExactlyOnce ==
  \A i \in Objects :
    /\ queries[i].deleted <= 1
    /\ Terminated(i) => queries[i].deleted = 1

(* C18: once every sub-resolution of the fan-out of an SRV query that is   *)
(* not cancelled has completed, with addresses or without, the SRV query   *)
(* has delivered its callback and is destroyed.                            *)
C18_SubsDoneDelivers ==
  \A i \in SrvQueries :
    ( /\ ~queries[i].cancelled_
      /\ queries[i].srv_records # <<>>
      /\ queries[i].subsIssued = Len(queries[i].srv_records)
      /\ \A j \in SubResolutions(i) : queries[j].deleted = 1 ) =>
      (queries[i].calls = 1 /\ queries[i].deleted = 1)

(* The queries made by a caller's resolve() or resolveSrv() in this step.  *)
Returned == {i \in step.created : queries[i].parent = 0}

(* C14: resolve() and resolveSrv() return null exactly when the query      *)
(* reached its final outcome inside the call, its callback already         *)
(* invoked; when they return a handle the callback has not been invoked    *)
(* and the query is pending on the channel.                                *)
C14_NullIffDoneInCall ==
  \A i \in Returned :
    /\ ~queries[i].handle <=> queries[i].calls = 1
    /\ queries[i].handle => (queries[i].calls = 0 /\ queries[i].pending # "none")

(* C15: wherever a caller's callback throws (completion of an address      *)
(* query, SRV delivery, the destruction path), the exception does not      *)
(* leave the resolver's code: it is caught and posted to the dispatcher,   *)
(* and the owned query object is still destroyed.                          *)
C15_CallbackFaultContained ==
  /\ ~step.escaped
  /\ step.posted = Cardinality(step.threw)
  /\ \A i \in step.threw : queries[i].owned_ => queries[i].deleted = 1

(* C16: when a completion callback driven by onEventCallback destroys the  *)
(* resolver, the code that runs after the callback returns uses no state   *)
(* of the destroyed resolver (channel, timer).                             *)
C16_NoUseAfterDestroy ==
  ~step.useAfterDestroy

(* The callback invocations recorded for call k of the validation          *)
(* resolver.                                                               *)
ValidationCallbacks(k) ==
  SelectSeq(validation[k].events, LAMBDA e : e.ev = "callback")

(* C17: every resolve() of the validation resolver invokes the callback    *)
(* exactly once, inside the call, with Success and no address, and returns *)
(* a null handle; every resolveSrv() invokes it exactly once, inside the   *)
(* call, with an empty list, and returns a null handle.                    *)
C17_ValidationAnswersInCall ==
  \A k \in 1..Len(validation) :
    LET events == validation[k].events
    IN /\ Len(ValidationCallbacks(k)) = 1
       /\ Len(events) = 2
       /\ events[1].ev = "callback"
       /\ events[1].list = <<>>
       /\ validation[k].call = "resolve" => events[1].status = "Success"
       /\ events[2].ev = "return"
       /\ ~events[2].handle

(* Both calls have been made, for different names and families. *)
C17_Witness ==
  /\ Len(validation) = MaxValidationCalls
  /\ \E j, k \in 1..Len(validation) :
       /\ validation[j].call = "resolve"
       /\ validation[k].call = "resolveSrv"
       /\ validation[j].family # validation[k].family

(* C19: when resolve() replaces a dirty channel, every address query that  *)
(* was outstanding on the old one gets the destruction outcome: its        *)
(* callback, unless cancelled, is invoked with Failure and no address, and *)
(* the query object is destroyed, before the new query is made.            *)
C19_ReinitFailsOutstanding ==
  step.reinit =>
    /\ ~step.issuedBeforeDrained
    /\ \A i \in step.reinitOld :
         /\ queries[i].deleted = 1
         /\ queries[i].pending = "none"
         /\ LastResp(i).status = ARES_EDESTRUCTION
         /\ queries[i].calls = IF queries[i].cancelled_ THEN 0 ELSE 1
         /\ (queries[i].parent = 0 /\ ~queries[i].cancelled_) =>
              /\ queries[i].cbStatus = "Failure"
              /\ queries[i].cbList = <<>>
              /\ queries[i].cbInDestroy

(* C20: the dirty flag is set only by an address query that gets           *)
(* connection refused on an attempt with no fallback left (never by the    *)
(* first attempt of an Auto query), and the caller of that query still     *)
(* receives Failure and no address.                                        *)
C20_DirtyOnFinalRefusal ==
  \A i \in step.dirtied :
       /\ queries[i].kind = "addr"
       /\ LastResp(i).status = ARES_ECONNREFUSED
       /\ queries[i].dns_lookup_family = "Auto" =>
            (Len(queries[i].resps) = 2 /\ queries[i].hints = <<AF_INET6, AF_INET>>)
       /\ (queries[i].parent = 0 /\ ~queries[i].cancelled_) =>
            /\ queries[i].calls = 1
            /\ queries[i].cbStatus = "Failure"
            /\ queries[i].cbList = <<>>

(* Both requests of an Auto query got connection refused: the IPv4         *)
(* fallback set the flag, and the caller got Failure.                      *)
C20_Witness ==
  \E i \in step.dirtied :
    /\ dirty_channel_
    /\ queries[i].dns_lookup_family = "Auto"
    /\ Len(queries[i].resps) = 2
    /\ queries[i].resps[1].status = ARES_ECONNREFUSED
    /\ queries[i].resps[2].status = ARES_ECONNREFUSED
    /\ queries[i].calls = 1
    /\ queries[i].cbStatus = "Failure"

(* An answer of address query i came on an attempt with no fallback left:  *)
(* the only attempt of V4Only/V6Only, the second of Auto.                  *)
NoFallbackLeft(i) ==
  /\ queries[i].resps # <<>>
  /\ Len(queries[i].resps) =
       IF queries[i].dns_lookup_family = "Auto" THEN 2 ELSE 1

(* C21: the callback of an address query reports Success exactly when the  *)
(* last attempt's status was ARES_SUCCESS, a Failure carries no address,   *)
(* and a successful answer with zero addresses on an attempt with no       *)
(* fallback left is delivered as Success with an empty list and is         *)
(* followed by no further attempt.                                         *)
C21_StatusFollowsFinalAttempt ==
  \A i \in AddrQueries :
    queries[i].parent = 0 =>
      /\ queries[i].calls > 0 =>
           /\ queries[i].cbStatus = "Success" <=>
                LastResp(i).status = ARES_SUCCESS
           /\ queries[i].cbStatus \in ResolutionStatus
           /\ queries[i].cbStatus = "Failure" => queries[i].cbList = <<>>
      /\ (/\ NoFallbackLeft(i)
          /\ LastResp(i) = [status |-> ARES_SUCCESS, n |-> 0]) =>
           /\ queries[i].pending = "none"
           /\ Len(queries[i].hints) = Len(queries[i].resps)
           /\ ~queries[i].cancelled_ =>
                /\ queries[i].calls = 1
                /\ queries[i].cbStatus = "Success"
                /\ queries[i].cbList = <<>>

(* The IPv4 attempt of an Auto query got a successful answer with zero     *)
(* addresses and the caller got Success with an empty list.                *)
C21_Witness ==
  \E i \in AddrQueries :
    /\ queries[i].parent = 0
    /\ queries[i].dns_lookup_family = "Auto"
    /\ queries[i].hints = <<AF_INET6, AF_INET>>
    /\ Len(queries[i].resps) = 2
    /\ queries[i].resps[2] = [status |-> ARES_SUCCESS, n |-> 0]
    /\ queries[i].calls = 1
    /\ queries[i].cbStatus = "Success"
    /\ queries[i].cbList = <<>>

(* The records of the last answer to a request of address query i. *)
LastRecords(i) ==
  AddrInfoNodes(queries[i].hints[Len(queries[i].resps)], LastResp(i).n)

(* C25: the list delivered for a final successful answer with records      *)
(* r1..rk has k entries in the same order, and entry j carries the address *)
(* and the TTL of record rj.                                               *)
C25_PerRecordTtl ==
  \A i \in AddrQueries :
    (/\ queries[i].parent = 0
     /\ queries[i].calls > 0
     /\ LastResp(i).status = ARES_SUCCESS) =>
      /\ Len(queries[i].cbList) = Len(LastRecords(i))
      /\ \A j \in 1..Len(LastRecords(i)) :
           /\ queries[i].cbList[j].address_.ip = LastRecords(i)[j].ai_addr
           /\ queries[i].cbList[j].address_.family = LastRecords(i)[j].ai_family
           /\ queries[i].cbList[j].ttl_ = LastRecords(i)[j].ai_ttl

(* A delivered list of two addresses whose records have different TTLs. *)
C25_Witness ==
  \E i \in AddrQueries :
    /\ queries[i].parent = 0
    /\ queries[i].calls = 1
    /\ LastResp(i) = [status |-> ARES_SUCCESS, n |-> 2]
    /\ Len(queries[i].cbList) = 2
    /\ queries[i].cbList[1].ttl_ # queries[i].cbList[2].ttl_

(* C24: ASSERT(owned_) of the two ARES_EDESTRUCTION branches never fails:  *)
(* every query that is answered with ARES_EDESTRUCTION was handed over by  *)
(* preparePendingResolution before, also when the channel is torn down     *)
(* from inside a callback.                                                 *)
C24_DestructionOnlyOwned ==
  /\ ~step.assertOwnedFailed
  /\ \A i \in Objects :
       (queries[i].resps # <<>> /\ LastResp(i).status = ARES_EDESTRUCTION) =>
         queries[i].owned_

(* A callback raised by the channel's processing destroyed the resolver,   *)
(* and an outstanding query got ARES_EDESTRUCTION.                         *)
C24_Witness ==
  /\ step.teardown
  /\ step.useAfterDestroy
  /\ \E i \in Objects :
       /\ queries[i].resps # <<>>
       /\ LastResp(i).status = ARES_EDESTRUCTION
       /\ queries[i].owned_

(* The top-level query an answer to a request of query i belongs to. *)
Top(i) == IF queries[i].parent = 0 THEN i ELSE queries[i].parent

(* The place in the log of the last answer to a request made for top-level *)
(* query a, and of the callback of a; 0 if the operation had none.         *)
FinalAt(a) ==
  LET at == {p \in 1..Len(step.log) :
               step.log[p].ev = "answer" /\ Top(step.log[p].id) = a}
  IN IF at = {} THEN 0 ELSE CHOOSE p \in at : \A r \in at : r <= p

CalledAt(a) ==
  LET at == {p \in 1..Len(step.log) :
               step.log[p].ev = "callback" /\ step.log[p].id = a}
  IN IF at = {} THEN 0 ELSE CHOOSE p \in at : \A r \in at : p <= r

(* C26: of two queries, not cancelled, whose last requests completed in    *)
(* the order a then b, the caller's callback of a is invoked before the    *)
(* caller's callback of b (a query with no answer in the log completed in  *)
(* an earlier operation).                                                  *)
C26_CallbacksInCompletionOrder ==
  \A a, b \in Objects :
    (/\ a # b
     /\ queries[a].parent = 0 /\ queries[b].parent = 0
     /\ ~queries[a].cancelled_ /\ ~queries[b].cancelled_
     /\ Terminated(a) /\ Terminated(b)
     /\ FinalAt(a) < FinalAt(b)
     /\ CalledAt(b) > 0) =>
      IF FinalAt(a) = 0
      THEN queries[a].calls > 0
      ELSE CalledAt(a) > 0 /\ CalledAt(a) < CalledAt(b)

(* C22: after any sequence of socket state changes, events_ holds a watch  *)
(* for fd exactly when the last report for fd wanted reading or writing,   *)
(* the watch is the one of that fd, and its enabled mask is the directions *)
(* of that report.                                                         *)
C22_WatchesFollowLastReport ==
  /\ DOMAIN events_ \subseteq Fds
  /\ \A fd \in Fds :
       LET wanted == IF ~reported[fd].seen THEN {}
                     ELSE (IF reported[fd].read # 0 THEN {"Read"} ELSE {})
                            \cup (IF reported[fd].write # 0 THEN {"Write"} ELSE {})
       IN /\ fd \in DOMAIN events_ <=> wanted # {}
          /\ fd \in DOMAIN events_ =>
               /\ events_[fd].fd = fd
               /\ events_[fd].enabled = wanted

(* One fd that was reported as wanting nothing and has no watch, one      *)
(* watched for reading only, and one watched for writing only.             *)
C22_Witness ==
  /\ reported[1] = [seen |-> TRUE, read |-> 0, write |-> 0]
  /\ 1 \notin DOMAIN events_
  /\ 2 \in DOMAIN events_
  /\ events_[2].enabled = {"Read"}
  /\ 3 \in DOMAIN events_
  /\ events_[3].enabled = {"Write"}

(* C23: when onEventCallback has run for a ready fd or for the timer, and  *)
(* when a call has issued an asynchronous request, the timer of a resolver *)
(* that still exists is armed exactly when the channel reports a timeout;  *)
(* the timer's call passes no fd to ares_process_fd, a ready fd is passed  *)
(* for exactly the directions signalled.                                   *)
C23_TimerFollowsChannel ==
  /\ (/\ ~destroyed
      /\ \/ step.op \in {"ready", "timer"}
         \/ \E i \in step.created : queries[i].owned_) =>
       (timer_ <=> \E i \in 1..MaxQueries : queries[i].pending # "none")
  /\ step.op = "timer" =>
       step.process = [read_fd |-> ARES_SOCKET_BAD, write_fd |-> ARES_SOCKET_BAD]
  /\ step.op = "ready" =>
       /\ step.event.fd \in Fds
       /\ step.event.events # {}
       /\ step.process.read_fd =
            IF "Read" \in step.event.events THEN step.event.fd ELSE ARES_SOCKET_BAD
       /\ step.process.write_fd =
            IF "Write" \in step.event.events THEN step.event.fd ELSE ARES_SOCKET_BAD

(* The timer fired, its processing ended the only outstanding request with *)
(* ARES_ETIMEOUT, and the timer was left disabled.                         *)
C23_Witness ==
  /\ step.op = "timer"
  /\ ~timer_
  /\ \A i \in 1..MaxQueries : queries[i].pending = "none"
  /\ \E i \in AddrQueries : LastResp(i).status = ARES_ETIMEOUT

====
